---- MODULE Spec2Model ----
(***************************************************************************)
(* Puter.js connection of Open-WebUI: the adapter of                       *)
(* src/lib/apis/puter/index.ts and the settings controller of              *)
(* src/lib/components/admin/Settings/Connections/PuterConnection.svelte.   *)
(*                                                                         *)
(* Strings.  A string is the sequence of its characters.  The code looks   *)
(* inside a string only for white space (trim) and for ':' (includes,      *)
(* split), so a maximal run of other characters is written as one element: *)
(* " a:b" is <<" ", "a", ":", "b">>, '' is <<>>.                           *)
(*                                                                         *)
(* Objects.  A property that is undefined is an absent record field, which *)
(* is also what JSON.stringify makes of it: {id: 'a', endpoint: undefined} *)
(* is [id |-> <<"a">>].                                                    *)
(*                                                                         *)
(* Scheduling.  A handler runs without interruption up to an await on the  *)
(* network or on the SDK (puter.auth.*, _getModels, updateUserSettings);   *)
(* an await on a value that is already there (settings.update,             *)
(* refreshModels, getUser when signed out) resumes in the same task of the *)
(* event loop, before any other event handler or response is delivered.    *)
(* So one action is one stretch of a handler between two such awaits.      *)
(*                                                                         *)
(* Markup.  A button can be pressed only where the markup renders it: the  *)
(* panel body exists only while $puterEnabled, the sign-in and sign-out    *)
(* buttons are disabled while loading, and the save button exists only in  *)
(* the row being edited.  The "Custom Models" section (showCustomModels)   *)
(* is taken as unfolded, which only makes more buttons reachable.          *)
(***************************************************************************)
EXTENDS Integers, Sequences, FiniteSets, Bags, TLC

\* ------------------------------------------------------------------ bounds
MaxCustom == 2      \* longest custom model list
MaxTasks == 2       \* handlers suspended at an await at the same time
MaxChunks == 3      \* chunks of a streamed chat response
MaxClicks == 2      \* events the user causes after the panel is mounted
MaxEdits == 3       \* events the user causes on the custom model list alone

\* ----------------------------------------------------------------- strings
WS == " "
COLON == ":"

RECURSIVE trimStart(_)
trimStart(s) ==
    IF s # <<>> /\ Head(s) = WS THEN trimStart(Tail(s)) ELSE s

RECURSIVE trimEnd(_)
trimEnd(s) ==
    IF s # <<>> /\ s[Len(s)] = WS THEN trimEnd(SubSeq(s, 1, Len(s) - 1)) ELSE s

\* String.prototype.trim
trim(s) == trimEnd(trimStart(s))

\* String.prototype.includes, for a one-character needle
includes(s, c) == \E i \in 1..Len(s) : s[i] = c

\* s.split(c)[0]: the part before the first c, the whole of s without one
RECURSIVE splitHead(_, _)
splitHead(s, c) ==
    IF s = <<>> \/ Head(s) = c THEN <<>> ELSE <<Head(s)>> \o splitHead(Tail(s), c)

HasField(r, f) == f \in DOMAIN r

\* ----------------------------------------------------------------- catalog
PuterModel(id, name, provider) == [id |-> id, name |-> name, provider |-> provider]

CURATED_PUTER_MODELS == <<
    PuterModel(<<"gpt-4o">>, <<"GPT-4o">>, <<"openai">>),
    PuterModel(<<"gpt-4o-mini">>, <<"GPT-4o", " ", "Mini">>, <<"openai">>),
    PuterModel(<<"gpt-4.1">>, <<"GPT-4.1">>, <<"openai">>),
    PuterModel(<<"gpt-4.1-mini">>, <<"GPT-4.1", " ", "Mini">>, <<"openai">>),
    PuterModel(<<"gpt-4.1-nano">>, <<"GPT-4.1", " ", "Nano">>, <<"openai">>),
    PuterModel(<<"o1">>, <<"o1">>, <<"openai">>),
    PuterModel(<<"o1-mini">>, <<"o1", " ", "Mini">>, <<"openai">>),
    PuterModel(<<"o3-mini">>, <<"o3", " ", "Mini">>, <<"openai">>),
    PuterModel(<<"claude-sonnet-4-20250514">>, <<"Claude", " ", "Sonnet", " ", "4">>, <<"anthropic">>),
    PuterModel(<<"claude-3-7-sonnet-20250219">>, <<"Claude", " ", "3.7", " ", "Sonnet">>, <<"anthropic">>),
    PuterModel(<<"claude-3-5-sonnet-20241022">>, <<"Claude", " ", "3.5", " ", "Sonnet">>, <<"anthropic">>),
    PuterModel(<<"claude-haiku-4-5-20251001">>, <<"Claude", " ", "Haiku", " ", "4.5">>, <<"anthropic">>),
    PuterModel(<<"gemini-2.0-flash">>, <<"Gemini", " ", "2.0", " ", "Flash">>, <<"google">>),
    PuterModel(<<"gemini-2.5-flash">>, <<"Gemini", " ", "2.5", " ", "Flash">>, <<"google">>),
    PuterModel(<<"gemini-2.5-pro">>, <<"Gemini", " ", "2.5", " ", "Pro">>, <<"google">>),
    PuterModel(<<"deepseek-chat">>, <<"DeepSeek", " ", "Chat">>, <<"deepseek">>),
    PuterModel(<<"deepseek-reasoner">>, <<"DeepSeek", " ", "Reasoner">>, <<"deepseek">>),
    PuterModel(<<"mistral-large-latest">>, <<"Mistral", " ", "Large">>, <<"mistral">>),
    PuterModel(<<"mistral-small-2506">>, <<"Mistral", " ", "Small">>, <<"mistral">>),
    PuterModel(<<"grok-3">>, <<"Grok", " ", "3">>, <<"xai">>),
    PuterModel(<<"grok-3-mini">>, <<"Grok", " ", "3", " ", "Mini">>, <<"xai">>) >>

getCuratedModels == CURATED_PUTER_MODELS

curatedIds == {getCuratedModels[i].id : i \in 1..Len(getCuratedModels)}

\* Mutant of customKept: the negation of curatedIds.has is lost
customKept_inverted(m) == m.id # <<>> /\ trim(m.id) # <<>> /\ trim(m.id) \in curatedIds

\* The filter of getModelsWithCustom: m && m.id && m.id.trim() && !curatedIds.has(m.id.trim())
customKept(m) == m.id # <<>> /\ trim(m.id) # <<>> /\ trim(m.id) \notin curatedIds

\* Mutant of customFormatted: the provider is taken from the trimmed id
customFormatted_trimmedProvider(m) ==
    LET core == [id |-> trim(m.id),
                 name |-> trim(m.id),
                 provider |-> IF includes(trim(m.id), COLON)
                              THEN splitHead(trim(m.id), COLON)
                              ELSE <<"custom">>]
    IN  IF HasField(m, "endpoint") /\ trim(m.endpoint) # <<>>
        THEN core @@ [endpoint |-> trim(m.endpoint)]
        ELSE core

\* The map of getModelsWithCustom; endpoint: m.endpoint?.trim() || undefined
customFormatted(m) ==
    LET core == [id |-> trim(m.id),
                 name |-> trim(m.id),
                 provider |-> IF includes(m.id, COLON) THEN splitHead(m.id, COLON)
                              ELSE <<"custom">>]
    IN  IF HasField(m, "endpoint") /\ trim(m.endpoint) # <<>>
        THEN core @@ [endpoint |-> trim(m.endpoint)]
        ELSE core

\* customModels.filter(...).map(...)
RECURSIVE customEntries(_)
customEntries(list) ==
    IF list = <<>> THEN <<>>
    ELSE (IF customKept(Head(list)) THEN <<customFormatted(Head(list))>> ELSE <<>>)
         \o customEntries(Tail(list))

getModelsWithCustom(customModels_) == getCuratedModels \o customEntries(customModels_)


\* --------------------------------------------------- global model list
PUTER_PREFIX == <<"puter/">>

\* m.id || m.name || 'unknown'
modelLabel(m) ==
    IF m.id # <<>> THEN m.id
    ELSE IF HasField(m, "name") /\ m.name # <<>> THEN m.name
    ELSE <<"unknown">>

\* m.name || m.id || 'Unknown Model'
modelTitle(m) ==
    IF HasField(m, "name") /\ m.name # <<>> THEN m.name
    ELSE IF m.id # <<>> THEN m.id
    ELSE <<"Unknown", " ", "Model">>

\* Mutant of formattedPuterModel: the id is not prefixed
formattedPuterModel_noPrefix(m) ==
    [id |-> modelLabel(m),
     name |-> <<"Puter", ":", " ">> \o modelTitle(m),
     owned_by |-> <<"puter">>,
     external |-> TRUE,
     puter |-> TRUE]

\* One entry of formattedPuterModels
formattedPuterModel(m) ==
    [id |-> PUTER_PREFIX \o modelLabel(m),
     name |-> <<"Puter", ":", " ">> \o modelTitle(m),
     owned_by |-> <<"puter">>,
     external |-> TRUE,
     puter |-> TRUE]

\* Mutant of globalModels: the entries of this provider are put first
globalModels_puterFirst(allModels, enabled, available, customModels_) ==
    IF enabled /\ available
    THEN [i \in 1..Len(getModelsWithCustom(customModels_)) |->
             formattedPuterModel(getModelsWithCustom(customModels_)[i])] \o allModels
    ELSE allModels

\* Mutant of globalModels: $puterEnabled is not looked at
globalModels_ignoreEnabled(allModels, enabled, available, customModels_) ==
    IF available
    THEN allModels \o [i \in 1..Len(getModelsWithCustom(customModels_)) |->
                          formattedPuterModel(getModelsWithCustom(customModels_)[i])]
    ELSE allModels

\* What refreshGlobalModels hands to models.set, from the list _getModels
\* returned and the values it reads after that await.
globalModels(allModels, enabled, available, customModels_) ==
    IF enabled /\ available
    THEN LET puterModels == getModelsWithCustom(customModels_)
         IN  IF Len(puterModels) > 0
             THEN allModels \o [i \in 1..Len(puterModels) |->
                                   formattedPuterModel(puterModels[i])]
             ELSE allModels
    ELSE allModels

\* An entry of the global list that this provider put there
isPuterEntry(m) == HasField(m, "puter") /\ m.puter

\* Models of the other providers, as _getModels returns them
BaseModel(id, owner) == [id |-> id, name |-> id, owned_by |-> owner]

BaseLists ==
    { <<BaseModel(<<"llama3">>, <<"ollama">>)>>,
      <<BaseModel(<<"gpt-4o">>, <<"openai">>), BaseModel(<<"llama3">>, <<"ollama">>)>> }

\* The global list when the panel is opened
InitialModels == <<BaseModel(<<"llama3">>, <<"ollama">>)>>

\* ------------------------------------------------------------ the state
VARIABLES
    mounted,                \* onMount has run
    sdk,                    \* window.puter is defined
    sdkSignedIn,            \* what puter.auth.isSignedIn() answers
    puterEnabled,           \* store
    puterSignedIn,          \* store
    puterUser,              \* store: NULL or {username, email}
    models,                 \* store: the global model list
    settings,               \* store: the user's ui settings
    persisted,              \* the ui settings the server holds
    loading,
    availableModels,
    customModels,
    newCustomModelId,
    newCustomModelEndpoint,
    editingModelIndex,      \* 0 is null; customModels[1] is the code's index 0
    editingEndpoint,
    tasks,                  \* bag of the handlers suspended at an await
    clicks,                 \* events the user has caused so far
    ev                      \* what the last step did

ctlVars == <<mounted, sdk, sdkSignedIn, puterEnabled, puterSignedIn, puterUser, models,
             settings, persisted, loading, availableModels, customModels,
             newCustomModelId, newCustomModelEndpoint, editingModelIndex,
             editingEndpoint, tasks, clicks, ev>>

\* chat(): one call and the holder of the AbortController it returns
VARIABLES
    chatPc,                 \* where the call is: "idle", "threw", "response", "stream", "done"
    aborted,                \* abortController.signal.aborted
    fullText,
    yielded,                \* the texts of the chunks the response has produced so far
    calls                   \* the callbacks invoked so far, in order

chatVars == <<chatPc, aborted, fullText, yielded, calls>>

\* A function of the adapter called directly
VARIABLES
    result                  \* what the last such call gave: a value or an error

vars == <<ctlVars, chatVars, result>>

NULL == <<>>

NoResult == [fn |-> "none", threw |-> FALSE, value |-> NULL]
Returned(fn, value) == [fn |-> fn, threw |-> FALSE, value |-> value]
Threw(fn) == [fn |-> fn, threw |-> TRUE, value |-> NULL]

\* The user puter.auth.getUser() resolves to
SdkUser == [uuid |-> <<"u-1">>, username |-> <<"ada">>, email |-> <<"ada@example.org">>]

\* { username: user.username, email: user.email }
storedUser(user) == [username |-> user.username, email |-> user.email]

\* A JSON string inside a persisted list (typeof m === 'string')
JsonString(s) == [str |-> s]

OtherSettings == [theme |-> <<"dark">>]

\* ({ ...s, puterEnabled: v }) and ({ ...s, puterCustomModels: v })
withEnabled(s, v) == [puterEnabled |-> v] @@ s
withCustomModels(s, v) == [puterCustomModels |-> v] @@ s

\* The settings a session can start from: a new user, the object format this
\* component writes, and the older format of plain strings.
PersistedChoices ==
    { OtherSettings,
      withCustomModels(withEnabled(OtherSettings, TRUE),
                       <<[id |-> <<"a">>, endpoint |-> <<"e">>],
                         [id |-> <<"or", ":", "m">>]>>),
      withCustomModels(withEnabled(OtherSettings, TRUE), <<JsonString(<<"a">>)>>) }

\* What the user types into the id and endpoint fields
AddInputs ==
    { [id |-> <<" ">>, endpoint |-> <<" ", "e">>],
      [id |-> <<" ", "a">>, endpoint |-> <<" ", "e">>],
      [id |-> <<"gpt-4o">>, endpoint |-> <<" ">>] }
EndpointInputs == { <<" ">>, <<" ", "e">> }

\* ------------------------------------------------------------ handlers
NoPayload == <<>>
\* before: for handleSignIn and handleSignOut, authState when the handler started
Task(kind, pc) ==
    [kind |-> kind, pc |-> pc, payload |-> NoPayload, rebuilt |-> FALSE,
     before |-> NoPayload]
OneTask(t) == SetToBag({t})
canSuspend == BagCardinality(tasks) < MaxTasks
suspended == BagToSet(tasks)

\* editing: the id the row had when startEditEndpoint was called on it, NULL when
\* no edit has been started or the last one was saved or cancelled
NoEvent ==
    [op |-> "none", kind |-> "none", toast |-> "none",
     wrote |-> FALSE, stored |-> FALSE,
     returned |-> FALSE, threw |-> FALSE, persistDone |-> FALSE, rebuildDone |-> FALSE,
     editing |-> <<>>]

Event(op, kind) == [NoEvent EXCEPT !.op = op, !.kind = kind, !.editing = ev.editing]

isPuterAvailable == sdk

\* The auth state of the stores and the cached model list of the component
authState ==
    [puterSignedIn |-> puterSignedIn, puterUser |-> puterUser,
     availableModels |-> availableModels]

\* PuterAPI.isSignedIn()
isSignedIn == IF ~isPuterAvailable THEN FALSE ELSE sdkSignedIn

\* refreshModels: what it leaves in availableModels and in loading
refreshedAvailable(available, customModels_, old) ==
    IF ~available THEN old
    ELSE LET puterModels == getModelsWithCustom(customModels_)
         IN  [i \in 1..Len(puterModels) |-> modelLabel(puterModels[i])]
refreshedLoading(available, old) == IF ~available THEN old ELSE FALSE

Init ==
    /\ mounted = FALSE
    /\ sdk \in BOOLEAN
    /\ sdkSignedIn \in (IF sdk THEN BOOLEAN ELSE {FALSE})
    /\ puterEnabled = FALSE
    /\ puterSignedIn = FALSE
    /\ puterUser = NULL
    /\ models = InitialModels
    /\ persisted \in PersistedChoices
    /\ settings = persisted
    /\ loading = FALSE
    /\ availableModels = <<>>
    /\ customModels = <<>>
    /\ newCustomModelId = <<>>
    /\ newCustomModelEndpoint = <<>>
    /\ editingModelIndex = 0
    /\ editingEndpoint = <<>>
    /\ tasks = EmptyBag
    /\ clicks = 0
    /\ ev = NoEvent
    /\ chatPc = "idle" /\ aborted = FALSE /\ fullText = <<>> /\ yielded = <<>>
    /\ calls = <<>>
    /\ result = NoResult


\* Mutant of migrated: a plain string stays a plain string
migrated_asIs(m) == m

\* The migration of onMount: a plain string becomes { id: m }
migrated(m) == IF HasField(m, "str") THEN [id |-> m.str] ELSE m

\* What onMount leaves in customModels, from the settings s and the old value
loadedCustomModels(s, old) ==
    IF HasField(s, "puterCustomModels")
    THEN [i \in 1..Len(s.puterCustomModels) |-> migrated(s.puterCustomModels[i])]
    ELSE old

\* onMount, up to its await of getUser
OnMount ==
    /\ ~mounted
    /\ mounted' = TRUE
    /\ puterEnabled' = IF HasField(settings, "puterEnabled")
                       THEN settings.puterEnabled ELSE puterEnabled
    /\ customModels' = loadedCustomModels(settings, customModels)
    /\ IF isPuterAvailable /\ isSignedIn
       THEN /\ puterSignedIn' = TRUE
            /\ tasks' = tasks (+) OneTask(Task("onMount", "getUser"))
            /\ ev' = Event("onMount", "onMount")
       ELSE /\ UNCHANGED <<puterSignedIn, tasks>>
            /\ ev' = [Event("onMount", "onMount") EXCEPT !.returned = TRUE]
    /\ UNCHANGED <<sdk, sdkSignedIn, puterUser, models, settings, persisted, loading,
                   availableModels, newCustomModelId, newCustomModelEndpoint,
                   editingModelIndex, editingEndpoint>>

\* Mutant of ToggleOnUnavailable: the return is lost and the handler goes on to save
ToggleOnUnavailable_noReturn ==
    /\ mounted /\ ~puterEnabled /\ ~isPuterAvailable /\ canSuspend
    /\ puterEnabled' = FALSE
    /\ settings' = withEnabled(settings, puterEnabled')
    /\ tasks' = tasks (+) OneTask([Task("handleToggle", "update") EXCEPT
                                     !.payload = settings'])
    /\ ev' = [Event("handleToggle", "handleToggle") EXCEPT
                !.toast = "Puter SDK not available", !.wrote = TRUE]
    /\ UNCHANGED <<mounted, sdk, sdkSignedIn, puterSignedIn, puterUser, models, persisted,
                   loading, availableModels, customModels, newCustomModelId,
                   newCustomModelEndpoint, editingModelIndex, editingEndpoint>>

\* ---- handleToggle.  The Switch is bound to $puterEnabled: it flips the store
\* and then fires change, which runs handleToggle.
ToggleOnUnavailable ==
    /\ mounted /\ ~puterEnabled /\ ~isPuterAvailable
    /\ puterEnabled' = FALSE
    /\ ev' = [Event("handleToggle", "handleToggle") EXCEPT
                !.toast = "Puter SDK not available", !.returned = TRUE]
    /\ UNCHANGED <<mounted, sdk, sdkSignedIn, puterSignedIn, puterUser, models, settings,
                   persisted, loading, availableModels, customModels, newCustomModelId,
                   newCustomModelEndpoint, editingModelIndex, editingEndpoint, tasks>>

ToggleOnSignedIn ==
    /\ mounted /\ ~puterEnabled /\ isPuterAvailable /\ isSignedIn /\ canSuspend
    /\ puterEnabled' = TRUE
    /\ puterSignedIn' = TRUE
    /\ tasks' = tasks (+) OneTask(Task("handleToggle", "getUser"))
    /\ ev' = Event("handleToggle", "handleToggle")
    /\ UNCHANGED <<mounted, sdk, sdkSignedIn, puterUser, models, settings, persisted,
                   loading, availableModels, customModels, newCustomModelId,
                   newCustomModelEndpoint, editingModelIndex, editingEndpoint>>

ToggleOnSignedOut ==
    /\ mounted /\ ~puterEnabled /\ isPuterAvailable /\ ~isSignedIn /\ canSuspend
    /\ puterEnabled' = TRUE
    /\ settings' = withEnabled(settings, puterEnabled')
    /\ tasks' = tasks (+) OneTask([Task("handleToggle", "update") EXCEPT
                                     !.payload = settings'])
    /\ ev' = [Event("handleToggle", "handleToggle") EXCEPT !.wrote = TRUE]
    /\ UNCHANGED <<mounted, sdk, sdkSignedIn, puterSignedIn, puterUser, models, persisted,
                   loading, availableModels, customModels, newCustomModelId,
                   newCustomModelEndpoint, editingModelIndex, editingEndpoint>>

ToggleOff ==
    /\ mounted /\ puterEnabled /\ canSuspend
    /\ puterEnabled' = FALSE
    /\ availableModels' = <<>>
    /\ tasks' = tasks (+) OneTask(Task("handleToggle", "getModels"))
    /\ ev' = Event("handleToggle", "handleToggle")
    /\ UNCHANGED <<mounted, sdk, sdkSignedIn, puterSignedIn, puterUser, models, settings,
                   persisted, loading, customModels, newCustomModelId,
                   newCustomModelEndpoint, editingModelIndex, editingEndpoint>>

HandleToggle == ToggleOnUnavailable \/ ToggleOnSignedIn \/ ToggleOnSignedOut \/ ToggleOff

\* ---- handleSignIn, up to its await of puter.auth.signIn(); getPuter() throws
\* without the SDK and the catch reports it.
HandleSignIn ==
    /\ mounted /\ puterEnabled /\ ~puterSignedIn /\ ~loading
    /\ IF isPuterAvailable
       THEN /\ canSuspend
            /\ loading' = TRUE
            /\ tasks' = tasks (+) OneTask([Task("handleSignIn", "signIn") EXCEPT
                                             !.before = authState])
            /\ ev' = Event("handleSignIn", "handleSignIn")
       ELSE /\ loading' = FALSE
            /\ tasks' = tasks
            /\ ev' = [Event("handleSignIn", "handleSignIn") EXCEPT
                        !.toast = "Sign in failed", !.returned = TRUE]
    /\ UNCHANGED <<mounted, sdk, sdkSignedIn, puterEnabled, puterSignedIn, puterUser,
                   models, settings, persisted, availableModels, customModels,
                   newCustomModelId, newCustomModelEndpoint, editingModelIndex,
                   editingEndpoint>>

\* ---- handleSignOut, up to its await of puter.auth.signOut()
HandleSignOut ==
    /\ mounted /\ puterEnabled /\ puterSignedIn /\ ~loading
    /\ IF isPuterAvailable
       THEN /\ canSuspend
            /\ loading' = TRUE
            /\ tasks' = tasks (+) OneTask([Task("handleSignOut", "signOut") EXCEPT
                                             !.before = authState])
            /\ ev' = Event("handleSignOut", "handleSignOut")
       ELSE /\ loading' = FALSE
            /\ tasks' = tasks
            /\ ev' = [Event("handleSignOut", "handleSignOut") EXCEPT
                        !.toast = "Sign out failed", !.returned = TRUE]
    /\ UNCHANGED <<mounted, sdk, sdkSignedIn, puterEnabled, puterSignedIn, puterUser,
                   models, settings, persisted, availableModels, customModels,
                   newCustomModelId, newCustomModelEndpoint, editingModelIndex,
                   editingEndpoint>>

\* ---- the "Refresh model list" button: refreshModels, then refreshGlobalModels
\* up to its await of _getModels
RefreshClick ==
    /\ mounted /\ puterEnabled /\ puterSignedIn /\ ~loading /\ canSuspend
    /\ availableModels' = refreshedAvailable(isPuterAvailable, customModels, availableModels)
    /\ loading' = refreshedLoading(isPuterAvailable, loading)
    /\ tasks' = tasks (+) OneTask(Task("refreshClick", "getModels"))
    /\ ev' = Event("refreshClick", "refreshClick")
    /\ UNCHANGED <<mounted, sdk, sdkSignedIn, puterEnabled, puterSignedIn, puterUser,
                   models, settings, persisted, customModels, newCustomModelId,
                   newCustomModelEndpoint, editingModelIndex, editingEndpoint>>


\* ---- the custom model registry
\* Mutant of alreadyAdded: the duplicate check finds nothing
alreadyAdded_unchecked(customModels_, modelId) == FALSE

\* customModels.some(m => m.id === modelId)
alreadyAdded(customModels_, modelId) ==
    \E i \in 1..Len(customModels_) : customModels_[i].id = modelId

\* { id: modelId, endpoint: newCustomModelEndpoint.trim() || undefined }
newModel(modelId, endpointText) ==
    IF trim(endpointText) # <<>>
    THEN [id |-> modelId, endpoint |-> trim(endpointText)]
    ELSE [id |-> modelId]

\* addCustomModel, up to the await of updateUserSettings in saveCustomModels.
\* The two text fields are bound to newCustomModelId and newCustomModelEndpoint.
AddCustomModel(typedId, typedEndpoint) ==
    LET modelId == trim(typedId)
        e == Event("addCustomModel", "addCustomModel")
    IN
    /\ mounted /\ puterEnabled
    /\ IF modelId = <<>>
       THEN /\ ev' = [e EXCEPT !.toast = "Please enter a model ID", !.returned = TRUE]
            /\ newCustomModelId' = typedId
            /\ newCustomModelEndpoint' = typedEndpoint
            /\ UNCHANGED <<customModels, settings, tasks>>
       ELSE IF alreadyAdded(customModels, modelId)
       THEN /\ ev' = [e EXCEPT !.toast = "Model already added", !.returned = TRUE]
            /\ newCustomModelId' = typedId
            /\ newCustomModelEndpoint' = typedEndpoint
            /\ UNCHANGED <<customModels, settings, tasks>>
       ELSE /\ Len(customModels) < MaxCustom
            /\ canSuspend
            /\ customModels' = Append(customModels, newModel(modelId, typedEndpoint))
            /\ newCustomModelId' = <<>>
            /\ newCustomModelEndpoint' = <<>>
            /\ settings' = withCustomModels(settings, customModels')
            /\ tasks' = tasks (+) OneTask([Task("addCustomModel", "update") EXCEPT
                                             !.payload = settings'])
            /\ ev' = [e EXCEPT !.wrote = TRUE]
    /\ UNCHANGED <<mounted, sdk, sdkSignedIn, puterEnabled, puterSignedIn, puterUser,
                   models, persisted, loading, availableModels, editingModelIndex,
                   editingEndpoint>>

\* customModels.filter(m => m.id !== modelId)
RECURSIVE without(_, _)
without(customModels_, modelId) ==
    IF customModels_ = <<>> THEN <<>>
    ELSE (IF Head(customModels_).id # modelId THEN <<Head(customModels_)>> ELSE <<>>)
         \o without(Tail(customModels_), modelId)

\* removeCustomModel(model.id) of a listed model, up to the await of
\* updateUserSettings in saveCustomModels
RemoveCustomModel(modelId) ==
    /\ mounted /\ puterEnabled /\ canSuspend
    /\ alreadyAdded(customModels, modelId)
    /\ customModels' = without(customModels, modelId)
    /\ settings' = withCustomModels(settings, customModels')
    /\ tasks' = tasks (+) OneTask([Task("removeCustomModel", "update") EXCEPT
                                     !.payload = settings'])
    /\ ev' = [Event("removeCustomModel", "removeCustomModel") EXCEPT !.wrote = TRUE]
    /\ UNCHANGED <<mounted, sdk, sdkSignedIn, puterEnabled, puterSignedIn, puterUser,
                   models, persisted, loading, availableModels, newCustomModelId,
                   newCustomModelEndpoint, editingModelIndex, editingEndpoint>>

\* The rows of the custom model list that are rendered
rows == 1..Len(customModels)

\* startEditEndpoint(index): the Edit button of a row that is not being edited
StartEditEndpoint(index) ==
    /\ mounted /\ puterEnabled
    /\ index \in rows /\ editingModelIndex # index
    /\ editingModelIndex' = index
    /\ editingEndpoint' = IF HasField(customModels[index], "endpoint")
                          THEN customModels[index].endpoint ELSE <<>>
    /\ ev' = [Event("startEditEndpoint", "startEditEndpoint") EXCEPT
                !.returned = TRUE, !.editing = customModels[index].id]
    /\ UNCHANGED <<mounted, sdk, sdkSignedIn, puterEnabled, puterSignedIn, puterUser,
                   models, settings, persisted, loading, availableModels, customModels,
                   newCustomModelId, newCustomModelEndpoint, tasks>>

\* cancelEditEndpoint: the Cancel button (or Escape) of the row being edited
CancelEditEndpoint ==
    /\ mounted /\ puterEnabled
    /\ editingModelIndex \in rows
    /\ editingModelIndex' = 0
    /\ editingEndpoint' = <<>>
    /\ ev' = [Event("cancelEditEndpoint", "cancelEditEndpoint") EXCEPT
                !.returned = TRUE, !.editing = <<>>]
    /\ UNCHANGED <<mounted, sdk, sdkSignedIn, puterEnabled, puterSignedIn, puterUser,
                   models, settings, persisted, loading, availableModels, customModels,
                   newCustomModelId, newCustomModelEndpoint, tasks>>

\* Mutant of withEndpoint: the "|| undefined" is lost
withEndpoint_keepsEmpty(m, text) == [endpoint |-> trim(text)] @@ m

\* customModels[index].endpoint = editingEndpoint.trim() || undefined
withEndpoint(m, text) ==
    IF trim(text) # <<>>
    THEN [endpoint |-> trim(text)] @@ m
    ELSE [f \in DOMAIN m \ {"endpoint"} |-> m[f]]

\* saveEndpoint(index): the Save button (or Enter) of the row being edited, whose
\* text field is bound to editingEndpoint; up to the await of updateUserSettings
SaveEndpoint(typed) ==
    LET index == editingModelIndex IN
    /\ mounted /\ puterEnabled /\ canSuspend
    /\ index \in rows
    /\ customModels' = [customModels EXCEPT ![index] = withEndpoint(@, typed)]
    /\ editingModelIndex' = 0
    /\ editingEndpoint' = <<>>
    /\ settings' = withCustomModels(settings, customModels')
    /\ tasks' = tasks (+) OneTask([Task("saveEndpoint", "update") EXCEPT
                                     !.payload = settings'])
    /\ ev' = [Event("saveEndpoint", "saveEndpoint") EXCEPT
                !.wrote = TRUE, !.editing = <<>>]
    /\ UNCHANGED <<mounted, sdk, sdkSignedIn, puterEnabled, puterSignedIn, puterUser,
                   models, persisted, loading, availableModels, newCustomModelId,
                   newCustomModelEndpoint>>


\* ---- the continuations: a suspended handler t goes on from its await
resume(t, next) == (tasks (-) OneTask(t)) (+) OneTask(next)
finish(t) == tasks (-) OneTask(t)

\* puter.auth.signIn() resolved to success
ResumeSignIn(t, success) ==
    /\ t.kind = "handleSignIn" /\ t.pc = "signIn"
    /\ IF success
       THEN /\ sdkSignedIn' = TRUE
            /\ puterSignedIn' = TRUE
            /\ loading' = loading
            /\ tasks' = resume(t, [t EXCEPT !.pc = "getUser"])
            /\ ev' = Event("signIn resolved", t.kind)
       ELSE /\ loading' = FALSE
            /\ tasks' = finish(t)
            /\ ev' = [Event("signIn resolved", t.kind) EXCEPT !.returned = TRUE]
            /\ UNCHANGED <<sdkSignedIn, puterSignedIn>>
    /\ UNCHANGED <<mounted, sdk, puterEnabled, puterUser, models, settings, persisted,
                   availableModels, customModels, newCustomModelId,
                   newCustomModelEndpoint, editingModelIndex, editingEndpoint>>

\* puter.auth.signIn() rejected: signIn rethrows, the catch of handleSignIn reports
FailSignIn(t) ==
    /\ t.kind = "handleSignIn" /\ t.pc = "signIn"
    /\ loading' = FALSE
    /\ tasks' = finish(t)
    /\ ev' = [Event("signIn rejected", t.kind) EXCEPT
                !.toast = "Sign in failed", !.returned = TRUE]
    /\ UNCHANGED <<mounted, sdk, sdkSignedIn, puterEnabled, puterSignedIn, puterUser,
                   models, settings, persisted, availableModels, customModels,
                   newCustomModelId, newCustomModelEndpoint, editingModelIndex,
                   editingEndpoint>>

\* puter.auth.signOut() resolved; handleSignOut goes on to the await of _getModels
ResumeSignOut(t) ==
    /\ t.kind = "handleSignOut" /\ t.pc = "signOut"
    /\ sdkSignedIn' = FALSE
    /\ puterSignedIn' = FALSE
    /\ puterUser' = NULL
    /\ availableModels' = <<>>
    /\ tasks' = resume(t, [t EXCEPT !.pc = "getModels"])
    /\ ev' = [Event("signOut resolved", t.kind) EXCEPT !.toast = "Signed out from Puter"]
    /\ UNCHANGED <<mounted, sdk, puterEnabled, models, settings, persisted, loading,
                   customModels, newCustomModelId, newCustomModelEndpoint,
                   editingModelIndex, editingEndpoint>>

FailSignOut(t) ==
    /\ t.kind = "handleSignOut" /\ t.pc = "signOut"
    /\ loading' = FALSE
    /\ tasks' = finish(t)
    /\ ev' = [Event("signOut rejected", t.kind) EXCEPT
                !.toast = "Sign out failed", !.returned = TRUE]
    /\ UNCHANGED <<mounted, sdk, sdkSignedIn, puterEnabled, puterSignedIn, puterUser,
                   models, settings, persisted, availableModels, customModels,
                   newCustomModelId, newCustomModelEndpoint, editingModelIndex,
                   editingEndpoint>>

\* What getUser() gives once puter.auth.getUser() settles: the user, or null when
\* that call rejected (getUser catches)
UserResults == IF sdkSignedIn THEN {SdkUser, NULL} ELSE {NULL}

\* getUser() settled with user; the handler goes on to its next await or its end
ResumeGetUser(t, user) ==
    /\ t.pc = "getUser"
    /\ user \in UserResults
    /\ puterUser' = IF user # NULL THEN storedUser(user) ELSE puterUser
    /\ IF t.kind = "onMount"
       THEN /\ availableModels' = IF puterEnabled
                                  THEN refreshedAvailable(isPuterAvailable, customModels,
                                                          availableModels)
                                  ELSE availableModels
            /\ loading' = IF puterEnabled
                          THEN refreshedLoading(isPuterAvailable, loading) ELSE loading
            /\ tasks' = finish(t)
            /\ ev' = [Event("getUser settled", t.kind) EXCEPT !.returned = TRUE]
       ELSE /\ availableModels' = refreshedAvailable(isPuterAvailable, customModels,
                                                     availableModels)
            /\ loading' = refreshedLoading(isPuterAvailable, loading)
            /\ tasks' = resume(t, [t EXCEPT !.pc = "getModels"])
            /\ ev' = [Event("getUser settled", t.kind) EXCEPT
                        !.toast = IF t.kind = "handleSignIn"
                                  THEN "Signed in with Puter" ELSE "none"]
    /\ UNCHANGED <<mounted, sdk, sdkSignedIn, puterEnabled, puterSignedIn, models,
                   settings, persisted, customModels, newCustomModelId,
                   newCustomModelEndpoint, editingModelIndex, editingEndpoint>>

\* _getModels resolved to allModels: the rest of refreshGlobalModels, then the
\* caller up to its next await or its end
ResumeGetModels(t, allModels) ==
    /\ t.pc = "getModels"
    /\ models' = globalModels(allModels, puterEnabled, isPuterAvailable, customModels)
    /\ LET e == [Event("refreshGlobalModels", t.kind) EXCEPT !.stored = TRUE] IN
       CASE t.kind = "handleToggle" ->
                /\ settings' = withEnabled(settings, puterEnabled)
                /\ tasks' = resume(t, [t EXCEPT !.pc = "update", !.payload = settings',
                                                !.rebuilt = TRUE])
                /\ ev' = [e EXCEPT !.wrote = TRUE]
                /\ UNCHANGED loading
         [] t.kind \in {"handleSignIn", "handleSignOut"} ->
                /\ loading' = FALSE
                /\ tasks' = finish(t)
                /\ ev' = [e EXCEPT !.returned = TRUE, !.rebuildDone = TRUE]
                /\ UNCHANGED settings
         [] t.kind \in {"addCustomModel", "removeCustomModel"} ->
                /\ tasks' = finish(t)
                /\ ev' = [e EXCEPT !.returned = TRUE, !.rebuildDone = TRUE,
                                   !.persistDone = TRUE,
                                   !.toast = IF t.kind = "addCustomModel"
                                             THEN "Custom model added"
                                             ELSE "Custom model removed"]
                /\ UNCHANGED <<settings, loading>>
         [] t.kind = "refreshClick" ->
                /\ tasks' = finish(t)
                /\ ev' = [e EXCEPT !.returned = TRUE, !.rebuildDone = TRUE]
                /\ UNCHANGED <<settings, loading>>
    /\ UNCHANGED <<mounted, sdk, sdkSignedIn, puterEnabled, puterSignedIn, puterUser,
                   persisted, availableModels, customModels, newCustomModelId,
                   newCustomModelEndpoint, editingModelIndex, editingEndpoint>>

\* _getModels rejected: refreshGlobalModels throws.  handleSignIn and handleSignOut
\* catch and report; the other callers have no catch and end with the error.
FailGetModels(t) ==
    /\ t.pc = "getModels"
    /\ tasks' = finish(t)
    /\ IF t.kind \in {"handleSignIn", "handleSignOut"}
       THEN /\ loading' = FALSE
            /\ ev' = [Event("_getModels rejected", t.kind) EXCEPT
                        !.toast = IF t.kind = "handleSignIn"
                                  THEN "Sign in failed" ELSE "Sign out failed",
                        !.returned = TRUE]
       ELSE /\ loading' = loading
            /\ ev' = [Event("_getModels rejected", t.kind) EXCEPT
                        !.returned = TRUE, !.threw = TRUE,
                        !.persistDone = t.kind \in {"addCustomModel", "removeCustomModel"}]
    /\ UNCHANGED <<mounted, sdk, sdkSignedIn, puterEnabled, puterSignedIn, puterUser,
                   models, settings, persisted, availableModels, customModels,
                   newCustomModelId, newCustomModelEndpoint, editingModelIndex,
                   editingEndpoint>>

\* updateUserSettings resolved: the server holds what was sent; the handler goes
\* on to its next await or its end
ResumeUpdate(t) ==
    /\ t.pc = "update"
    /\ persisted' = t.payload
    /\ LET e == Event("updateUserSettings resolved", t.kind) IN
       CASE t.kind = "handleToggle" ->
                /\ tasks' = finish(t)
                /\ ev' = [e EXCEPT !.returned = TRUE, !.persistDone = TRUE,
                                   !.rebuildDone = t.rebuilt]
                /\ UNCHANGED <<availableModels, loading>>
         [] t.kind = "saveEndpoint" ->
                /\ tasks' = finish(t)
                /\ ev' = [e EXCEPT !.returned = TRUE, !.persistDone = TRUE,
                                   !.toast = "Endpoint updated"]
                /\ UNCHANGED <<availableModels, loading>>
         [] t.kind \in {"addCustomModel", "removeCustomModel"} ->
                /\ availableModels' = refreshedAvailable(isPuterAvailable, customModels,
                                                         availableModels)
                /\ loading' = refreshedLoading(isPuterAvailable, loading)
                /\ tasks' = resume(t, [t EXCEPT !.pc = "getModels",
                                                !.payload = NoPayload])
                /\ ev' = e
    /\ UNCHANGED <<mounted, sdk, sdkSignedIn, puterEnabled, puterSignedIn, puterUser,
                   models, settings, customModels, newCustomModelId,
                   newCustomModelEndpoint, editingModelIndex, editingEndpoint>>

\* updateUserSettings rejected: no caller catches, the handler ends with the error
FailUpdate(t) ==
    /\ t.pc = "update"
    /\ tasks' = finish(t)
    /\ ev' = [Event("updateUserSettings rejected", t.kind) EXCEPT
                !.returned = TRUE, !.threw = TRUE, !.rebuildDone = t.rebuilt]
    /\ UNCHANGED <<mounted, sdk, sdkSignedIn, puterEnabled, puterSignedIn, puterUser,
                   models, settings, persisted, loading, availableModels, customModels,
                   newCustomModelId, newCustomModelEndpoint, editingModelIndex,
                   editingEndpoint>>

\* One more event of the user
click == clicks < MaxClicks /\ clicks' = clicks + 1

Next ==
    \/ OnMount /\ UNCHANGED <<clicks, chatVars, result>>
    \/ click /\ ToggleOnUnavailable /\ UNCHANGED <<chatVars, result>>
    \/ click /\ ToggleOnSignedIn /\ UNCHANGED <<chatVars, result>>
    \/ click /\ ToggleOnSignedOut /\ UNCHANGED <<chatVars, result>>
    \/ click /\ ToggleOff /\ UNCHANGED <<chatVars, result>>
    \/ click /\ HandleSignIn /\ UNCHANGED <<chatVars, result>>
    \/ click /\ HandleSignOut /\ UNCHANGED <<chatVars, result>>
    \/ click /\ RefreshClick /\ UNCHANGED <<chatVars, result>>
    \/ \E typed \in AddInputs :
            click /\ AddCustomModel(typed.id, typed.endpoint) /\ UNCHANGED <<chatVars, result>>
    \/ \E i \in rows :
            click /\ RemoveCustomModel(customModels[i].id) /\ UNCHANGED <<chatVars, result>>
    \/ \E i \in rows : click /\ StartEditEndpoint(i) /\ UNCHANGED <<chatVars, result>>
    \/ click /\ CancelEditEndpoint /\ UNCHANGED <<chatVars, result>>
    \/ \E typed \in EndpointInputs : click /\ SaveEndpoint(typed) /\ UNCHANGED <<chatVars, result>>
    \/ \E t \in suspended, success \in BOOLEAN :
            ResumeSignIn(t, success) /\ UNCHANGED <<clicks, chatVars, result>>
    \/ \E t \in suspended : FailSignIn(t) /\ UNCHANGED <<clicks, chatVars, result>>
    \/ \E t \in suspended : ResumeSignOut(t) /\ UNCHANGED <<clicks, chatVars, result>>
    \/ \E t \in suspended : FailSignOut(t) /\ UNCHANGED <<clicks, chatVars, result>>
    \/ \E t \in suspended, user \in {SdkUser, NULL} :
            ResumeGetUser(t, user) /\ UNCHANGED <<clicks, chatVars, result>>
    \/ \E t \in suspended, allModels \in BaseLists :
            ResumeGetModels(t, allModels) /\ UNCHANGED <<clicks, chatVars, result>>
    \/ \E t \in suspended : FailGetModels(t) /\ UNCHANGED <<clicks, chatVars, result>>
    \/ \E t \in suspended : ResumeUpdate(t) /\ UNCHANGED <<clicks, chatVars, result>>
    \/ \E t \in suspended : FailUpdate(t) /\ UNCHANGED <<clicks, chatVars, result>>

Spec == Init /\ [][Next]_vars

\* ------------------------------------- the custom model list on its own
\* The panel with the switch, the sign-in and the refresh buttons left alone: the
\* user only adds, removes and edits custom models.
edit == clicks < MaxEdits /\ clicks' = clicks + 1

NextRegistry ==
    \/ OnMount /\ UNCHANGED <<clicks, chatVars, result>>
    \/ \E typed \in AddInputs :
            edit /\ AddCustomModel(typed.id, typed.endpoint) /\ UNCHANGED <<chatVars, result>>
    \/ \E i \in rows :
            edit /\ RemoveCustomModel(customModels[i].id) /\ UNCHANGED <<chatVars, result>>
    \/ \E i \in rows : edit /\ StartEditEndpoint(i) /\ UNCHANGED <<chatVars, result>>
    \/ edit /\ CancelEditEndpoint /\ UNCHANGED <<chatVars, result>>
    \/ \E typed \in EndpointInputs : edit /\ SaveEndpoint(typed) /\ UNCHANGED <<chatVars, result>>
    \/ \E t \in suspended, user \in {SdkUser, NULL} :
            ResumeGetUser(t, user) /\ UNCHANGED <<clicks, chatVars, result>>
    \/ \E t \in suspended, allModels \in BaseLists :
            ResumeGetModels(t, allModels) /\ UNCHANGED <<clicks, chatVars, result>>
    \/ \E t \in suspended : FailGetModels(t) /\ UNCHANGED <<clicks, chatVars, result>>
    \/ \E t \in suspended : ResumeUpdate(t) /\ UNCHANGED <<clicks, chatVars, result>>
    \/ \E t \in suspended : FailUpdate(t) /\ UNCHANGED <<clicks, chatVars, result>>

SpecRegistry == Init /\ [][NextRegistry]_vars

\* ------------------------------------------------------------- chat()
\* The texts of the chunks of a streamed response; <<>> is a chunk without text
ChunkTexts == { <<>>, <<"Hel">>, <<"lo">> }

\* The content of a complete response
Contents == { <<>>, <<"Hello">> }

Call(cb, text) == [cb |-> cb, text |-> text, afterAbort |-> aborted]

\* chat(messages, options, callbacks) up to the await of puter.ai.chat; getPuter()
\* throws without the SDK and chat rejects before it made a controller
Chat ==
    /\ chatPc = "idle"
    /\ chatPc' = IF isPuterAvailable THEN "response" ELSE "threw"
    /\ UNCHANGED <<aborted, fullText, yielded, calls>>

\* The caller aborts the controller chat returned
Abort ==
    /\ chatPc \in {"response", "stream", "done"}
    /\ ~aborted
    /\ aborted' = TRUE
    /\ UNCHANGED <<chatPc, fullText, yielded, calls>>

\* Mutant of caught: the error is logged and no callback is made
caught_silent(message) == calls

\* The catch of chat: onError with the error's message, unless aborted
caught(message) == IF ~aborted THEN Append(calls, Call("onError", message)) ELSE calls

\* What puter.ai.chat or the iteration rejects with
REJECTION == <<"network", " ", "error">>

\* The error payloads { success: false, error? }
ErrorPayloads ==
    { [success |-> FALSE, error |-> [message |-> <<"quota">>, code |-> <<"E42">>]],
      [success |-> FALSE, error |-> [code |-> <<"E42">>]],
      [success |-> FALSE] }

\* errorResponse.error?.message || errorResponse.error?.code || 'Puter API error'
errorMessage(errorResponse) ==
    IF HasField(errorResponse, "error") /\ HasField(errorResponse.error, "message")
       /\ errorResponse.error.message # <<>>
    THEN errorResponse.error.message
    ELSE IF HasField(errorResponse, "error") /\ HasField(errorResponse.error, "code")
            /\ errorResponse.error.code # <<>>
    THEN errorResponse.error.code
    ELSE <<"Puter", " ", "API", " ", "error">>

\* puter.ai.chat rejected
ChatRejected ==
    /\ chatPc = "response"
    /\ calls' = caught(REJECTION)
    /\ chatPc' = "done"
    /\ UNCHANGED <<aborted, fullText, yielded>>

\* puter.ai.chat resolved to { success: false, error }: chat throws into its catch
ChatErrorPayload(response) ==
    /\ chatPc = "response"
    /\ ~response.success
    /\ calls' = caught(errorMessage(response))
    /\ chatPc' = "done"
    /\ UNCHANGED <<aborted, fullText, yielded>>

\* puter.ai.chat resolved to a complete response: the non-streaming fallback
ChatSingle(content) ==
    /\ chatPc = "response"
    /\ fullText' = content
    /\ calls' = calls \o <<Call("onToken", content), Call("onComplete", content)>>
    /\ chatPc' = "done"
    /\ UNCHANGED <<aborted, yielded>>

\* puter.ai.chat resolved to an async iterable: the loop awaits its first chunk
ChatStream ==
    /\ chatPc = "response"
    /\ chatPc' = "stream"
    /\ UNCHANGED <<aborted, fullText, yielded, calls>>

\* Mutant of StreamChunk: the token is delivered and not added to fullText
StreamChunk_unjoined(text) ==
    /\ chatPc = "stream"
    /\ Len(yielded) < MaxChunks
    /\ yielded' = Append(yielded, text)
    /\ IF aborted
       THEN /\ calls' = Append(calls, Call("onComplete", fullText))
            /\ chatPc' = "done"
            /\ UNCHANGED fullText
       ELSE IF text # <<>>
       THEN /\ calls' = Append(calls, Call("onToken", text))
            /\ UNCHANGED <<fullText, chatPc>>
       ELSE UNCHANGED <<fullText, calls, chatPc>>
    /\ UNCHANGED aborted

\* The iterable yields a chunk: the body of the for await, and after a break the
\* statement that follows the loop
StreamChunk(text) ==
    /\ chatPc = "stream"
    /\ Len(yielded) < MaxChunks
    /\ yielded' = Append(yielded, text)
    /\ IF aborted
       THEN /\ calls' = Append(calls, Call("onComplete", fullText))
            /\ chatPc' = "done"
            /\ UNCHANGED fullText
       ELSE IF text # <<>>
       THEN /\ fullText' = fullText \o text
            /\ calls' = Append(calls, Call("onToken", text))
            /\ UNCHANGED chatPc
       ELSE UNCHANGED <<fullText, calls, chatPc>>
    /\ UNCHANGED aborted

\* The iterable is exhausted: the loop ends and onComplete follows
StreamEnds ==
    /\ chatPc = "stream"
    /\ calls' = Append(calls, Call("onComplete", fullText))
    /\ chatPc' = "done"
    /\ UNCHANGED <<aborted, fullText, yielded>>

\* The iterable fails: the for await throws into the catch
StreamThrows ==
    /\ chatPc = "stream"
    /\ calls' = caught(REJECTION)
    /\ chatPc' = "done"
    /\ UNCHANGED <<aborted, fullText, yielded>>

\* ---- a callback of the caller throws.  The calls of onToken and onComplete are
\* inside the try of chat, so what they throw reaches the same catch.
THROWN == <<"callback", " ", "failed">>

\* The catch of chat, reached after the callbacks in made were called in this step
caughtAfter(made, message) ==
    IF ~aborted THEN Append(made, Call("onError", message)) ELSE made

\* The callbacks of the caller that chat calls inside its try
ThrowingCallbacks == {"onToken", "onComplete"}

\* puter.ai.chat resolved to a complete response and the callback named by thrower
\* throws: onComplete is not reached when onToken threw
ChatSingleThrows(content, thrower) ==
    /\ chatPc = "response"
    /\ fullText' = content
    /\ calls' = caughtAfter(IF thrower = "onToken"
                            THEN Append(calls, Call("onToken", content))
                            ELSE calls \o <<Call("onToken", content),
                                            Call("onComplete", content)>>,
                            THROWN)
    /\ chatPc' = "done"
    /\ UNCHANGED <<aborted, yielded>>

\* The iterable yields a chunk with text and onToken throws: the loop is left for
\* the catch
StreamTokenThrows(text) ==
    /\ chatPc = "stream"
    /\ Len(yielded) < MaxChunks
    /\ ~aborted
    /\ text # <<>>
    /\ yielded' = Append(yielded, text)
    /\ fullText' = fullText \o text
    /\ calls' = caughtAfter(Append(calls, Call("onToken", text)), THROWN)
    /\ chatPc' = "done"
    /\ UNCHANGED aborted

\* The iterable is exhausted and the onComplete that follows the loop throws
StreamCompleteThrows ==
    /\ chatPc = "stream"
    /\ calls' = caughtAfter(Append(calls, Call("onComplete", fullText)), THROWN)
    /\ chatPc' = "done"
    /\ UNCHANGED <<aborted, fullText, yielded>>

\* ---- the other functions of the adapter, called directly.  A call and the
\* settling of the promise it returned are one step here.
panelVars == <<mounted, puterEnabled, puterSignedIn, puterUser, models, settings,
               persisted, loading, availableModels, customModels, newCustomModelId,
               newCustomModelEndpoint, editingModelIndex, editingEndpoint, tasks,
               clicks, ev>>

\* isSignedIn()
CallIsSignedIn ==
    /\ result' = Returned("isSignedIn", isSignedIn)
    /\ UNCHANGED <<sdk, sdkSignedIn, panelVars, chatVars>>

\* What puter.auth.signIn() does: resolves to true, resolves to false, rejects
SignInOutcomes == {"true", "false", "rejected"}

\* signIn(): getPuter() throws without the SDK; a rejection is logged and rethrown
CallSignIn(outcome) ==
    /\ IF ~isPuterAvailable \/ outcome = "rejected"
       THEN result' = Threw("signIn") /\ UNCHANGED sdkSignedIn
       ELSE /\ result' = Returned("signIn", outcome = "true")
            /\ sdkSignedIn' = IF outcome = "true" THEN TRUE ELSE sdkSignedIn
    /\ UNCHANGED <<sdk, panelVars, chatVars>>

\* signOut()
CallSignOut(rejected) ==
    /\ IF ~isPuterAvailable \/ rejected
       THEN result' = Threw("signOut") /\ UNCHANGED sdkSignedIn
       ELSE result' = Returned("signOut", NULL) /\ sdkSignedIn' = FALSE
    /\ UNCHANGED <<sdk, panelVars, chatVars>>

\* getUser(): null when isSignedIn() is false, and null when puter.auth.getUser()
\* rejects
CallGetUser(user) ==
    /\ user \in UserResults
    /\ result' = Returned("getUser", IF ~isSignedIn THEN NULL ELSE user)
    /\ UNCHANGED <<sdk, sdkSignedIn, panelVars, chatVars>>

\* What puter.ai.chat resolves to with stream: false
SyncResponses == {[message |-> [content |-> content]] : content \in Contents}
                 \cup ErrorPayloads

\* chatSync(): no catch; reading message.content of an error payload is a TypeError
CallChatSync(response, rejected) ==
    /\ IF ~isPuterAvailable \/ rejected \/ ~HasField(response, "message")
       THEN result' = Threw("chatSync")
       ELSE result' = Returned("chatSync", [text |-> response.message.content])
    /\ UNCHANGED <<sdk, sdkSignedIn, panelVars, chatVars>>

\* Mutant of CallListModels: getPuter() is called inside the try
CallListModels_guarded(rejected) ==
    /\ result' = Returned("listModels",
                          IF ~isPuterAvailable \/ rejected
                          THEN <<>> ELSE <<CURATED_PUTER_MODELS[1]>>)
    /\ UNCHANGED <<sdk, sdkSignedIn, panelVars, chatVars>>

\* listModels(): getPuter() is called before the try; a rejection gives []
CallListModels(rejected) ==
    /\ IF ~isPuterAvailable
       THEN result' = Threw("listModels")
       ELSE result' = Returned("listModels",
                               IF rejected THEN <<>> ELSE <<CURATED_PUTER_MODELS[1]>>)
    /\ UNCHANGED <<sdk, sdkSignedIn, panelVars, chatVars>>

InitChat ==
    /\ mounted = FALSE
    /\ sdk \in BOOLEAN
    /\ sdkSignedIn = FALSE
    /\ puterEnabled = FALSE
    /\ puterSignedIn = FALSE
    /\ puterUser = NULL
    /\ models = InitialModels
    /\ persisted = OtherSettings
    /\ settings = persisted
    /\ loading = FALSE
    /\ availableModels = <<>>
    /\ customModels = <<>>
    /\ newCustomModelId = <<>>
    /\ newCustomModelEndpoint = <<>>
    /\ editingModelIndex = 0
    /\ editingEndpoint = <<>>
    /\ tasks = EmptyBag
    /\ clicks = 0
    /\ ev = NoEvent
    /\ chatPc = "idle" /\ aborted = FALSE /\ fullText = <<>> /\ yielded = <<>>
    /\ calls = <<>>
    /\ result = NoResult

NextChat ==
    \/ Chat /\ UNCHANGED <<ctlVars, result>>
    \/ Abort /\ UNCHANGED <<ctlVars, result>>
    \/ ChatRejected /\ UNCHANGED <<ctlVars, result>>
    \/ \E response \in ErrorPayloads : ChatErrorPayload(response) /\ UNCHANGED <<ctlVars, result>>
    \/ \E content \in Contents : ChatSingle(content) /\ UNCHANGED <<ctlVars, result>>
    \/ ChatStream /\ UNCHANGED <<ctlVars, result>>
    \/ \E text \in ChunkTexts : StreamChunk(text) /\ UNCHANGED <<ctlVars, result>>
    \/ StreamEnds /\ UNCHANGED <<ctlVars, result>>
    \/ StreamThrows /\ UNCHANGED <<ctlVars, result>>
    \/ \E content \in Contents, thrower \in ThrowingCallbacks :
            ChatSingleThrows(content, thrower) /\ UNCHANGED <<ctlVars, result>>
    \/ \E text \in ChunkTexts : StreamTokenThrows(text) /\ UNCHANGED <<ctlVars, result>>
    \/ StreamCompleteThrows /\ UNCHANGED <<ctlVars, result>>
    \/ CallIsSignedIn
    \/ \E outcome \in SignInOutcomes : CallSignIn(outcome)
    \/ \E rejected \in BOOLEAN : CallSignOut(rejected)
    \/ \E user \in {SdkUser, NULL} : CallGetUser(user)
    \/ \E response \in SyncResponses, rejected \in BOOLEAN : CallChatSync(response, rejected)
    \/ \E rejected \in BOOLEAN : CallListModels(rejected)

SpecChat == InitChat /\ [][NextChat]_vars

\* ------------------------------------------- the custom model list, stored
\* The ids and endpoints that stored entries are made of
StoredIds ==
    { <<>>, <<" ">>, <<" ", "a">>, <<"or", ":", "m">>, <<" ", "or", ":", "m">>,
      <<"gpt-4o", " ">> }
StoredEndpoints == { <<" ">>, <<" ", "e", " ">> }

\* An entry of a stored list: a plain string (the older format) or an object
StoredEntries ==
    {JsonString(id) : id \in StoredIds}
    \cup {[id |-> id] : id \in StoredIds}
    \cup {[id |-> id, endpoint |-> e] : id \in StoredIds, e \in StoredEndpoints}

StoredLists == UNION {[1..n -> StoredEntries] : n \in 0..MaxCustom}

StoredSettings ==
    {OtherSettings} \cup {withCustomModels(OtherSettings, list) : list \in StoredLists}

\* saveCustomModels(), with updateUserSettings resolved
SaveCustomModels ==
    /\ mounted
    /\ settings' = withCustomModels(settings, customModels)
    /\ persisted' = settings'
    /\ ev' = [Event("saveCustomModels", "saveCustomModels") EXCEPT
                !.wrote = TRUE, !.persistDone = TRUE, !.returned = TRUE]
    /\ UNCHANGED <<mounted, sdk, sdkSignedIn, puterEnabled, puterSignedIn, puterUser,
                   models, loading, availableModels, customModels, newCustomModelId,
                   newCustomModelEndpoint, editingModelIndex, editingEndpoint, tasks,
                   clicks, chatVars, result>>

\* The page is loaded again: the settings store holds what the server holds and
\* the component starts from its declarations
Reload ==
    /\ mounted
    /\ mounted' = FALSE
    /\ settings' = persisted
    /\ puterEnabled' = FALSE
    /\ customModels' = <<>>
    /\ ev' = NoEvent
    /\ result' = NoResult
    /\ UNCHANGED <<sdk, sdkSignedIn, puterSignedIn, puterUser, models, persisted,
                   loading, availableModels, newCustomModelId, newCustomModelEndpoint,
                   editingModelIndex, editingEndpoint, tasks, clicks, chatVars>>

\* getModelsWithCustom(customModels)
CallGetModelsWithCustom ==
    /\ result' = Returned("getModelsWithCustom", getModelsWithCustom(customModels))
    /\ UNCHANGED <<sdk, sdkSignedIn, panelVars, chatVars>>

InitCatalog ==
    /\ mounted = FALSE
    /\ sdk = FALSE
    /\ sdkSignedIn = FALSE
    /\ puterEnabled = FALSE
    /\ puterSignedIn = FALSE
    /\ puterUser = NULL
    /\ models = InitialModels
    /\ persisted \in StoredSettings
    /\ settings = persisted
    /\ loading = FALSE
    /\ availableModels = <<>>
    /\ customModels = <<>>
    /\ newCustomModelId = <<>>
    /\ newCustomModelEndpoint = <<>>
    /\ editingModelIndex = 0
    /\ editingEndpoint = <<>>
    /\ tasks = EmptyBag
    /\ clicks = 0
    /\ ev = NoEvent
    /\ chatPc = "idle" /\ aborted = FALSE /\ fullText = <<>> /\ yielded = <<>>
    /\ calls = <<>>
    /\ result = NoResult

NextCatalog ==
    \/ OnMount /\ UNCHANGED <<clicks, chatVars, result>>
    \/ SaveCustomModels
    \/ Reload
    \/ CallGetModelsWithCustom

SpecCatalog == InitCatalog /\ [][NextCatalog]_vars


\* ------------------------------------------------------------- claims
noPuterEntries == \A i \in 1..Len(models) : ~isPuterEntry(models[i])

idsDistinct(list) ==
    \A i, j \in 1..Len(list) : i # j => list[i].id # list[j].id

\* The entered id, trimmed, is the id of a custom model of the list
duplicateOf(list, typedId) == \E i \in 1..Len(list) : list[i].id = trim(typedId)

\* C1: whenever puterEnabled is false, the global model list holds no entry of
\* this provider, also while a handler is suspended at an await.
C1_DisabledMeansNoPuterEntries == ~puterEnabled => noPuterEntries

\* C2: a handler that changed puterEnabled or the custom model list (toggle, add,
\* remove, save endpoint) has, when it returns, both completed updateUserSettings and
\* run refreshGlobalModels.  (A handler that returns from its first stretch, before
\* any await, has rejected its input and changed nothing.)
C2_ChangePersistsAndRebuilds ==
    (/\ ev.returned
     /\ ev.kind \in {"handleToggle", "addCustomModel", "removeCustomModel", "saveEndpoint"}
     /\ ev.op \notin {"handleToggle", "addCustomModel"})
    => (ev.persistDone /\ ev.rebuildDone)

\* C3 as stated: an addCustomModel whose trimmed id is a curated id or the id of a
\* custom model leaves the list alone, writes nothing and reports an error.
C3_CollidingAddRejected ==
    [][\A typed \in AddInputs :
          (/\ AddCustomModel(typed.id, typed.endpoint)
           /\ (trim(typed.id) \in curatedIds \/ duplicateOf(customModels, typed.id)))
          => (/\ customModels' = customModels
              /\ ~ev'.wrote /\ tasks' = tasks /\ settings' = settings
              /\ ev'.toast = "Model already added")]_vars

\* C3 amended: an addCustomModel whose trimmed id is the id of a custom model of the
\* list leaves the list alone, writes nothing and reports "Model already added".
C3_DuplicateAddRejected ==
    [][\A typed \in AddInputs :
          (/\ AddCustomModel(typed.id, typed.endpoint)
           /\ duplicateOf(customModels, typed.id))
          => (/\ customModels' = customModels
              /\ ~ev'.wrote /\ tasks' = tasks /\ settings' = settings
              /\ ev'.toast = "Model already added")]_vars

C3_Witness == ev.op = "addCustomModel" /\ ev.toast = "Model already added"

\* C4: an addCustomModel whose trimmed id is not empty, not curated and not in the
\* list appends exactly one entry with that id, leaves the others as they were, and
\* getModelsWithCustom of the new list has an entry with that id.
C4_FreshAddAppends ==
    [][\A typed \in AddInputs :
          (/\ AddCustomModel(typed.id, typed.endpoint)
           /\ trim(typed.id) # <<>>
           /\ trim(typed.id) \notin curatedIds
           /\ ~duplicateOf(customModels, typed.id))
          => (/\ Len(customModels') = Len(customModels) + 1
              /\ SubSeq(customModels', 1, Len(customModels)) = customModels
              /\ customModels'[Len(customModels')].id = trim(typed.id)
              /\ \E j \in 1..Len(getModelsWithCustom(customModels')) :
                    getModelsWithCustom(customModels')[j].id = trim(typed.id))]_vars

C4_Witness ==
    /\ ev.op = "addCustomModel" /\ ev.wrote
    /\ customModels[Len(customModels)].id = <<"a">>

\* C5 as stated: the ids of customModels are pairwise distinct and none is a
\* curated id.
C5_DistinctAndNotCurated ==
    /\ idsDistinct(customModels)
    /\ \A i \in 1..Len(customModels) : customModels[i].id \notin curatedIds

\* C5 amended: the ids of customModels are pairwise distinct, and so are the ids of
\* getModelsWithCustom(customModels), which leaves out a custom entry with a
\* curated id.
C5_DistinctIds ==
    /\ idsDistinct(customModels)
    /\ idsDistinct(getModelsWithCustom(customModels))

C5_Witness ==
    /\ Len(customModels) = 2
    /\ \E i \in 1..2 : customModels[i].id \in curatedIds

\* C6: when handleSignOut has run to its end without a failure, availableModels is
\* empty and the global model list holds no entry of this provider.
C6_SignOutRemovesPuterEntries ==
    (ev.returned /\ ev.kind = "handleSignOut" /\ ev.op = "refreshGlobalModels")
    => (availableModels = <<>> /\ noPuterEntries)

\* C7: a toggle to on without the SDK sets puterEnabled back to false, reports an
\* error, writes no settings and leaves the global model list alone.
C7_ToggleWithoutSdkReverts ==
    [][(HandleToggle /\ ~puterEnabled /\ ~isPuterAvailable)
       => (/\ puterEnabled' = FALSE
           /\ ev'.toast = "Puter SDK not available"
           /\ ~ev'.wrote /\ tasks' = tasks
           /\ settings' = settings /\ persisted' = persisted
           /\ models' = models)]_vars

C7_Witness == ev.op = "handleToggle" /\ ev.toast = "Puter SDK not available"

\* C8: when refreshGlobalModels reads puterEnabled as false (after its await of
\* _getModels), the list it stores is the list _getModels returned.
C8_DisabledStoresBase ==
    [][\A t \in suspended, allModels \in BaseLists :
          (ResumeGetModels(t, allModels) /\ ~puterEnabled) => models' = allModels]_vars

C8_Witness ==
    /\ ev.op = "refreshGlobalModels" /\ ev.stored
    /\ ~puterEnabled /\ customModels # <<>> /\ puterSignedIn

\* The entries the provider adds for the curated catalog alone
isCuratedTail(list, from) ==
    /\ Len(list) = from + Len(CURATED_PUTER_MODELS)
    /\ \A k \in 1..Len(CURATED_PUTER_MODELS) :
          /\ list[from + k].id = <<"puter/">> \o CURATED_PUTER_MODELS[k].id
          /\ list[from + k].owned_by = <<"puter">>
          /\ list[from + k].external = TRUE
          /\ list[from + k].puter = TRUE

\* C9 as stated: when refreshGlobalModels runs with puterEnabled true and no custom
\* model, it stores the fetched list followed by one entry for each curated model.
C9_EnabledStoresBaseAndCatalog ==
    [][\A t \in suspended, allModels \in BaseLists :
          (ResumeGetModels(t, allModels) /\ puterEnabled /\ customModels = <<>>)
          => (/\ SubSeq(models', 1, Len(allModels)) = allModels
              /\ isCuratedTail(models', Len(allModels)))]_vars

\* C9 amended: ... with puterEnabled true, the SDK present and no custom model ...
C9_EnabledWithSdkStoresBaseAndCatalog ==
    [][\A t \in suspended, allModels \in BaseLists :
          (/\ ResumeGetModels(t, allModels)
           /\ puterEnabled /\ isPuterAvailable /\ customModels = <<>>)
          => (/\ SubSeq(models', 1, Len(allModels)) = allModels
              /\ isCuratedTail(models', Len(allModels)))]_vars

C9_Witness ==
    /\ ev.op = "refreshGlobalModels" /\ ev.stored
    /\ puterEnabled /\ isPuterAvailable /\ customModels = <<>>

\* C10: a callback made after the abort is neither onComplete nor onError.
C10_NoEndAfterAbort ==
    \A i \in 1..Len(calls) :
        calls[i].cb \in {"onComplete", "onError"} => ~calls[i].afterAbort

\* C11: a callback made after the abort is not onToken, for a streamed response
\* and for a complete one.
C11_NoTokenAfterAbort ==
    \A i \in 1..Len(calls) : calls[i].cb = "onToken" => ~calls[i].afterAbort

\* A callback made while the call was not cancelled
madeCall(cb, text) == [cb |-> cb, text |-> text, afterAbort |-> FALSE]

\* One onToken for each chunk that has text, in the order of arrival
RECURSIVE tokensOf(_)
tokensOf(chunks) ==
    IF chunks = <<>> THEN <<>>
    ELSE (IF Head(chunks) # <<>> THEN <<madeCall("onToken", Head(chunks))>> ELSE <<>>)
         \o tokensOf(Tail(chunks))

\* The texts of the chunks, put together in the order of arrival
RECURSIVE joined(_)
joined(chunks) == IF chunks = <<>> THEN <<>> ELSE Head(chunks) \o joined(Tail(chunks))

\* C12: when the chunks of an uncancelled call end without a failure, the callbacks
\* made are one onToken for each chunk that has text, in order, and then one
\* onComplete with these texts put together; no callback follows.
C12_StreamDeliversThenCompletes ==
    [][/\ (StreamEnds /\ ~aborted)
          => calls' = tokensOf(yielded)
                      \o <<madeCall("onComplete", joined(yielded))>>
       /\ chatPc = "done" => calls' = calls]_vars

C12_Witness ==
    /\ chatPc = "done" /\ ~aborted
    /\ yielded = << <<"Hel">>, <<>>, <<"lo">> >>
    /\ calls[Len(calls)].cb = "onComplete"

\* C13: in an uncancelled call, an error payload gives one onError and no other
\* callback; a failure of the iteration gives one onError after the onToken calls
\* already made, which stay as they were; onComplete is not called and no callback
\* follows.
C13_FailureGivesOneError ==
    [][/\ \A response \in ErrorPayloads :
             (ChatErrorPayload(response) /\ ~aborted)
             => (Len(calls') = 1 /\ calls'[1].cb = "onError")
       /\ (StreamThrows /\ ~aborted)
          => (/\ calls = tokensOf(yielded)
              /\ Len(calls') = Len(calls) + 1
              /\ SubSeq(calls', 1, Len(calls)) = calls
              /\ calls'[Len(calls')].cb = "onError")
       /\ chatPc = "done" => calls' = calls]_vars

C13_Witness ==
    /\ chatPc = "done" /\ ~aborted
    /\ Len(calls) = 3
    /\ calls[1].cb = "onToken" /\ calls[2].cb = "onToken" /\ calls[3].cb = "onError"

\* The endpoint of a custom model, NULL for none
endpointOf(m) == IF HasField(m, "endpoint") THEN m.endpoint ELSE NULL

\* Two custom model lists with the same ids and the same endpoints in the same order
sameList(a, b) ==
    /\ Len(a) = Len(b)
    /\ \A i \in 1..Len(a) : a[i].id = b[i].id /\ endpointOf(a[i]) = endpointOf(b[i])

\* C14: the list that onMount loads from what saveCustomModels stored has the ids
\* and endpoints of the saved list in the same order; and onMount loads a stored
\* list entry by entry, a plain string s as the object {id: s} without endpoint and
\* an object as it is.
C14_SaveThenLoadKeepsList ==
    [][/\ SaveCustomModels
          => sameList(loadedCustomModels(persisted', <<>>), customModels)
       /\ (OnMount /\ HasField(settings, "puterCustomModels"))
          => (/\ Len(customModels') = Len(settings.puterCustomModels)
              /\ \A i \in 1..Len(settings.puterCustomModels) :
                    LET m == settings.puterCustomModels[i] IN
                    IF HasField(m, "str")
                    THEN customModels'[i] = [id |-> m.str]
                    ELSE customModels'[i] = m)]_vars

C14_Witness ==
    /\ ev.op = "saveCustomModels"
    /\ Len(customModels) = 2
    /\ customModels[1] = [id |-> <<" ", "a">>]
    /\ HasField(customModels[2], "endpoint")
    /\ persisted.puterCustomModels = customModels

\* C15: when puter.auth.signIn() resolves to true, handleSignIn sets puterSignedIn;
\* when handleSignIn ends because the sign-in failed (signIn threw, rejected or
\* resolved to false), puterSignedIn is false and "Sign in failed" is shown.
C15_SignInOutcomes ==
    /\ (ev.op = "signIn resolved" /\ ~ev.returned) => puterSignedIn
    /\ (/\ ev.kind = "handleSignIn" /\ ev.returned
        /\ ev.op \in {"handleSignIn", "signIn resolved", "signIn rejected"})
       => (~puterSignedIn /\ ev.toast = "Sign in failed")

\* C16: a step of handleSignIn or handleSignOut that shows "Sign in failed" or
\* "Sign out failed" leaves puterSignedIn, puterUser and availableModels as they
\* were when the handler started, whichever await failed.
C16_FailureLeavesAuthState ==
    [][/\ \A t \in suspended :
             (/\ t.kind \in {"handleSignIn", "handleSignOut"}
              /\ (FailSignIn(t) \/ FailSignOut(t) \/ FailGetModels(t)))
             => authState' = t.before
       /\ ((HandleSignIn \/ HandleSignOut)
           /\ ev'.toast \in {"Sign in failed", "Sign out failed"})
          => authState' = authState]_vars

\* C17: no step of handleToggle, handleSignIn, handleSignOut, addCustomModel,
\* removeCustomModel or saveEndpoint ends the handler with an error that nothing
\* caught.
C17_NoUncaughtError ==
    ev.threw => ev.kind \notin {"handleToggle", "handleSignIn", "handleSignOut",
                                "addCustomModel", "removeCustomModel", "saveEndpoint"}

\* C18 as stated: without the SDK, isSignedIn() returns false and throws nothing,
\* and each of signIn, signOut, getUser, chatSync, listModels and chat fails with an
\* error.
C18_AbsentSdkCallsFail ==
    ~sdk => /\ result.fn = "isSignedIn" => (~result.threw /\ result.value = FALSE)
            /\ result.fn \in {"signIn", "signOut", "getUser", "chatSync", "listModels"}
               => result.threw
            /\ chatPc # "idle" => chatPc = "threw"

\* C18 amended: without the SDK, isSignedIn() returns false and getUser() gives
\* null, neither with an error, and each of signIn, signOut, chatSync, listModels
\* and chat fails with an error.
C18_AbsentSdkCallsFailButGetUser ==
    ~sdk => /\ result.fn = "isSignedIn" => (~result.threw /\ result.value = FALSE)
            /\ result.fn = "getUser" => (~result.threw /\ result.value = NULL)
            /\ result.fn \in {"signIn", "signOut", "chatSync", "listModels"}
               => result.threw
            /\ chatPc # "idle" => chatPc = "threw"

C18_Witness == ~sdk /\ result.fn = "getUser" /\ chatPc = "threw"

\* C19: the list refreshGlobalModels stores begins with the list _getModels
\* returned, entry by entry, and every entry after that is one of this provider.
C19_BaseIsPrefix ==
    [][\A t \in suspended, allModels \in BaseLists :
          ResumeGetModels(t, allModels)
          => (/\ Len(models') >= Len(allModels)
              /\ SubSeq(models', 1, Len(allModels)) = allModels
              /\ \A i \in (Len(allModels) + 1)..Len(models') :
                    isPuterEntry(models'[i]))]_vars

C19_Witness ==
    /\ ev.op = "refreshGlobalModels" /\ ev.stored
    /\ Len(models) > 2
    /\ models[1].id = <<"gpt-4o">> /\ models[2].id = <<"llama3">>
    /\ isPuterEntry(models[3])

\* The custom entries whose trimmed id is not empty and is not the id of a curated
\* model, in the order of the list
RECURSIVE keptOf(_)
keptOf(list) ==
    IF list = <<>> THEN <<>>
    ELSE (IF /\ trim(Head(list).id) # <<>>
             /\ \A k \in 1..Len(CURATED_PUTER_MODELS) :
                   CURATED_PUTER_MODELS[k].id # trim(Head(list).id)
          THEN <<Head(list)>> ELSE <<>>)
         \o keptOf(Tail(list))

\* The part of s before its first ':'
beforeColon(s) ==
    LET k == CHOOSE k \in 1..Len(s) : s[k] = ":" /\ \A j \in 1..(k - 1) : s[j] # ":"
    IN  SubSeq(s, 1, k - 1)

\* C20: getModelsWithCustom returns the curated catalog followed by one entry for
\* each custom entry whose trimmed id is not empty and not curated, in list order;
\* the entry has the trimmed id, as provider the part of the custom entry's id
\* before its first ':' ('custom' without a ':'), and an endpoint only when the
\* custom entry has one that is not blank.
C20_MergedIsCatalogThenCustom ==
    [][CallGetModelsWithCustom
       => LET out == result'.value
              kept == keptOf(customModels)
              n == Len(CURATED_PUTER_MODELS)
          IN  /\ Len(out) = n + Len(kept)
              /\ SubSeq(out, 1, n) = CURATED_PUTER_MODELS
              /\ \A k \in 1..Len(kept) :
                    LET m == kept[k]
                        o == out[n + k]
                        blank == ~HasField(m, "endpoint") \/ trim(m.endpoint) = <<>>
                    IN  /\ o.id = trim(m.id)
                        /\ o.provider = IF \E j \in 1..Len(m.id) : m.id[j] = ":"
                                        THEN beforeColon(m.id) ELSE <<"custom">>
                        /\ blank => ~HasField(o, "endpoint")
                        /\ ~blank => o.endpoint = trim(m.endpoint)]_vars

C20_Witness ==
    /\ result.fn = "getModelsWithCustom"
    /\ Len(customModels) = 2
    /\ Len(result.value) = Len(CURATED_PUTER_MODELS) + 1
    /\ result.value[Len(result.value)].provider = <<" ", "or">>
    /\ ~HasField(result.value[Len(result.value)], "endpoint")

\* C21: while a handleSignIn or handleSignOut is suspended at one of its awaits,
\* loading is true.
C21_LoadingWhileInFlight ==
    \A t \in suspended : t.kind \in {"handleSignIn", "handleSignOut"} => loading

\* The fragment {puterEnabled, puterCustomModels} of the settings the server holds,
\* as onMount would load it
persistedEnabled ==
    IF HasField(persisted, "puterEnabled") THEN persisted.puterEnabled ELSE FALSE
persistedCustomModels == loadedCustomModels(persisted, <<>>)

\* C22: when no handler is suspended at an await (each has returned and each write
\* that was sent has been answered), the server holds the puterEnabled and the
\* custom model list that are in memory.
C22_PersistedMatchesMemory ==
    (mounted /\ tasks = EmptyBag)
    => (persistedEnabled = puterEnabled /\ persistedCustomModels = customModels)

\* C23: saveEndpoint gives the edited row no endpoint when the text is blank and
\* the trimmed text otherwise, never the empty string; the list keeps its length and
\* its ids in their order, the other rows stay as they were, and the new list is
\* what goes into the settings.
C23_SaveEndpointNormalises ==
    [][\A typed \in EndpointInputs :
          SaveEndpoint(typed)
          => LET i == editingModelIndex IN
             /\ Len(customModels') = Len(customModels)
             /\ \A j \in rows : customModels'[j].id = customModels[j].id
             /\ \A j \in rows \ {i} : customModels'[j] = customModels[j]
             /\ IF trim(typed) = <<>>
                THEN ~HasField(customModels'[i], "endpoint")
                ELSE /\ HasField(customModels'[i], "endpoint")
                     /\ customModels'[i].endpoint = trim(typed)
                     /\ customModels'[i].endpoint # <<>>
             /\ settings'.puterCustomModels = customModels']_vars

C23_Witness ==
    /\ ev.op = "saveEndpoint"
    /\ customModels = <<[id |-> <<"a">>], [id |-> <<"or", ":", "m">>]>>

\* C24: saveEndpoint changes the endpoint of the model whose id the row had when
\* startEditEndpoint was called on it, which is still in the list, and leaves every
\* other model as it was, whatever was added or removed in between.
C24_SaveEditsTheRowStarted ==
    [][\A typed \in EndpointInputs :
          SaveEndpoint(typed)
          => (/\ \E j \in rows : customModels[j].id = ev.editing
              /\ \A j \in rows :
                    IF customModels[j].id = ev.editing
                    THEN endpointOf(customModels'[j])
                         = (IF trim(typed) = <<>> THEN NULL ELSE trim(typed))
                    ELSE customModels'[j] = customModels[j])]_vars

\* The positions in calls of the callbacks that end a call
terminals == {i \in 1..Len(calls) : calls[i].cb \in {"onComplete", "onError"}}

\* C25: in a call that has not been cancelled, no onComplete and no onError has been
\* made while puter.ai.chat or the iteration is still pending, and once it has
\* settled exactly one of the two has been made, as the last callback.
C25_OneTerminalCallback ==
    ~aborted => IF chatPc = "done"
                THEN Cardinality(terminals) = 1 /\ Len(calls) \in terminals
                ELSE terminals = {}

====
